---- MODULE Spec2Model ----
(***************************************************************************)
(* A model of the uml_state_machine crate: the StateMachine definition     *)
(* (src/src/definition/mod.rs), its validation, and the execution engine   *)
(* StateMachineInstance (src/src/execution/mod.rs).                        *)
(*                                                                         *)
(* An Option<T> value is modelled as a sequence of length at most one:     *)
(* None is <<>> and Some(v) is <<v>>.  A Vec is a sequence, a HashSet a    *)
(* set, a HashMap a function.  Guard and action closures are drawn from a  *)
(* small catalogue of named closures over an integer context.              *)
(***************************************************************************)
EXTENDS Naturals, Sequences, FiniteSets

VARIABLES chart,     \* the Rc<StateMachine> handed to StateMachineInstance::new
          created,   \* TRUE once StateMachineInstance::new has returned an instance
          active,    \* StateMachineInstance.active : HashSet<StateID>
          context,   \* StateMachineInstance.context : RefCell<D>
          state,     \* StateMachineInstance.state : RefCell<ExecutionState>
          call,      \* the last call made by the caller: operation, argument, result,
                     \* the callbacks it ran (in order) and the instance before it
          hist,      \* what has happened over the whole life of the instance
          peer,      \* a second StateMachineInstance made from the same Rc<StateMachine>
          builder,   \* the StateMachineBuilder, and the StateBuilder being filled in
          array,     \* an Array of the context module, and the last call made on it
          gen        \* the IntegerGenerator behind ID::random, and the threads calling it

vars == <<chart, created, active, context, state, call, hist, peer, builder, array, gen>>

----------------------------------------------------------------------------
(* Bounds of the model *)

\* the context is a counter in 0..MaxCtx; the "inc" action saturates at MaxCtx
MaxCtx == 2
\* the transition list of the state under test holds at most MaxTrans transitions
MaxTrans == 2
\* the life-long counters of hist saturate at CountCap
CountCap == 2

----------------------------------------------------------------------------
(* Option and sequence helpers *)

None == <<>>

Some(v) == <<v>>

Range(s) == {s[i] : i \in 1..Len(s)}

SeqsUpTo(S, n) == UNION {[1..k -> S] : k \in 1..n}

\* the orders in which a HashSet may be iterated
Orders(S) == {o \in [1..Cardinality(S) -> S] : \A i, j \in 1..Cardinality(S) : o[i] = o[j] => i = j}

Sat(n) == IF n < CountCap THEN n + 1 ELSE n

----------------------------------------------------------------------------
(* The definition: StateKind, Transition, State, StateMachine *)

\* StateID::invalid()
INVALID_STATE_TAG_VALUE == "<invalid-state-tag>"

Atomic == [k |-> "Atomic"]

Composite(child_states, initial) == [k |-> "Composite", child_states |-> child_states, initial |-> initial]

Orthogonal(child_states) == [k |-> "Orthogonal", child_states |-> child_states]

History(deep) == [k |-> "History", deep |-> deep, state |-> <<>>]

Initial == [k |-> "Initial"]

Final == [k |-> "Final"]

Transition(event, target, internal, conditions, actions) ==
    [event |-> event, target |-> target, internal |-> internal,
     conditions |-> conditions, actions |-> actions]

State(kind, transitions, on_entry, on_run, on_exit) ==
    [kind |-> kind, transitions |-> transitions,
     on_entry |-> on_entry, on_run |-> on_run, on_exit |-> on_exit]

StateMachine(states, initial, on_init, on_done) ==
    [states |-> states, initial |-> initial, on_init |-> on_init, on_done |-> on_done]

\* StateMachine::has_state
has_state(c, id) == id \in DOMAIN c.states

\* State::accepts: the events of the state's transitions
state_accepts(st) == {t.event[1] : t \in {u \in Range(st.transitions) : u.event # None}}

----------------------------------------------------------------------------
(* Validation *)

RECURSIVE first_error(_)
\* collect::<Result<Vec<()>, Error>>() over a Vec: the first error in order
first_error(results) ==
    IF results = <<>> THEN "Ok"
    ELSE IF Head(results) # "Ok" THEN Head(results)
    ELSE first_error(Tail(results))

\* Transition::validate without the test on the target
transition_validate_anyTarget(c, t) ==
    IF t.event = None /\ t.target = None /\ t.conditions = <<>> THEN "TransitionTrigger"
    ELSE "Ok"

\* Transition::validate
transition_validate(c, t) ==
    IF t.event = None /\ t.target = None /\ t.conditions = <<>> THEN "TransitionTrigger"
    ELSE IF t.target # None /\ ~has_state(c, t.target[1]) THEN "TransitionTargetState"
    ELSE "Ok"

\* State::validate without the test on the transitions of a Final state
state_validate_finalMayLeave(c, st) ==
    LET kindError ==
            CASE st.kind.k = "Composite" ->
                    IF st.kind.child_states = <<>> THEN "StateChildStatesEmpty"
                    ELSE IF ~has_state(c, st.kind.initial) THEN "StateInitialState"
                    ELSE IF c.states[st.kind.initial].kind.k # "Initial" THEN "StateInitialState"
                    ELSE "Ok"
              [] st.kind.k = "Orthogonal" ->
                    IF st.kind.child_states = <<>> THEN "StateChildStatesEmpty" ELSE "Ok"
              [] OTHER -> "Ok"
    IN  IF kindError # "Ok" THEN kindError
        ELSE first_error([i \in 1..Len(st.transitions) |-> transition_validate(c, st.transitions[i])])

\* State::validate
state_validate(c, st) ==
    LET kindError ==
            CASE st.kind.k = "Composite" ->
                    IF st.kind.child_states = <<>> THEN "StateChildStatesEmpty"
                    ELSE IF ~has_state(c, st.kind.initial) THEN "StateInitialState"
                    ELSE IF c.states[st.kind.initial].kind.k # "Initial" THEN "StateInitialState"
                    ELSE "Ok"
              [] st.kind.k = "Orthogonal" ->
                    IF st.kind.child_states = <<>> THEN "StateChildStatesEmpty" ELSE "Ok"
              [] st.kind.k = "Final" ->
                    IF st.transitions # <<>> THEN "FinalStateTransitions" ELSE "Ok"
              [] OTHER -> "Ok"
    IN  IF kindError # "Ok" THEN kindError
        ELSE first_error([i \in 1..Len(st.transitions) |-> transition_validate(c, st.transitions[i])])

\* validate without the test that a Final state exists
validate_noFinalTest(c) ==
    IF DOMAIN c.states = {} THEN {"ChartStatesEmpty"}
    ELSE IF ~has_state(c, c.initial) THEN {"ChartInvalidInitialStateName"}
    ELSE IF c.states[c.initial].kind.k # "Initial" THEN {"ChartInvalidInitialStateKind"}
    ELSE LET errs == {state_validate(c, c.states[id]) : id \in DOMAIN c.states} \ {"Ok"}
         IN  IF errs = {} THEN {"Ok"} ELSE errs

\* validate with the states validated before the tests on the machine
validate_statesFirst(c) ==
    LET errs == {state_validate(c, c.states[id]) : id \in DOMAIN c.states} \ {"Ok"}
    IN  IF errs # {} THEN errs
        ELSE IF DOMAIN c.states = {} THEN {"ChartStatesEmpty"}
        ELSE IF ~has_state(c, c.initial) THEN {"ChartInvalidInitialStateName"}
        ELSE IF c.states[c.initial].kind.k # "Initial" THEN {"ChartInvalidInitialStateKind"}
        ELSE IF {id \in DOMAIN c.states : c.states[id].kind.k = "Final"} = {} THEN {"ChartNoFinalState"}
        ELSE {"Ok"}

\* StateMachine::validate: the set of results it may return.  The states are
\* validated in the iteration order of a HashMap, so with several defective
\* states any one of their errors may be the first.
validate(c) ==
    IF DOMAIN c.states = {} THEN {"ChartStatesEmpty"}
    ELSE IF ~has_state(c, c.initial) THEN {"ChartInvalidInitialStateName"}
    ELSE IF c.states[c.initial].kind.k # "Initial" THEN {"ChartInvalidInitialStateKind"}
    ELSE IF {id \in DOMAIN c.states : c.states[id].kind.k = "Final"} = {} THEN {"ChartNoFinalState"}
    ELSE LET errs == {state_validate(c, c.states[id]) : id \in DOMAIN c.states} \ {"Ok"}
         IN  IF errs = {} THEN {"Ok"} ELSE errs

----------------------------------------------------------------------------
(* The closures a definition may carry.  A ConditionFn reads the context,  *)
(* an ActionFn may change it; either may panic.                            *)

ConditionFns == {"always", "never", "ctxZero", "ctxPos", "panic"}

ActionFns == {"nop", "inc", "panic"}

\* calling a ConditionFn that does not panic
condition(c, id, on_event, ctx) ==
    CASE c = "always" -> TRUE
      [] c = "never" -> FALSE
      [] c = "ctxZero" -> ctx = 0
      [] c = "ctxPos" -> ctx > 0

\* calling an ActionFn that does not panic
action(a, id, on_event, ctx) ==
    CASE a = "nop" -> ctx
      [] a = "inc" -> IF ctx < MaxCtx THEN ctx + 1 ELSE ctx

----------------------------------------------------------------------------
(* The execution engine.  The operators below thread a record m through a  *)
(* call: m.context and m.state are the instance's RefCells, m.trace the    *)
(* callbacks run so far in this call, and m.panicked tells that a closure  *)
(* has panicked, after which the call unwinds and nothing else is done.    *)

ExecutionState == {"New", "Active", "InAction", "Done", "Error"}

is_active(s) == s = "Active"

is_in_action(s) == s = "InAction"

is_in_error(s) == s = "Error"

is_done(s) == s = "Done"

Callback(tag, id, t) == [tag |-> tag, id |-> id, t |-> t]

RECURSIVE run_actions(_, _, _, _)
\* StateMachineInstance::run_actions
run_actions(m, in_state_id, on_event, actions) ==
    IF actions = <<>> \/ m.panicked THEN m
    ELSE IF Head(actions) = "panic" THEN [m EXCEPT !.panicked = TRUE]
    ELSE run_actions([m EXCEPT !.context = action(Head(actions), in_state_id, on_event, @)],
                     in_state_id, on_event, Tail(actions))

\* post_internal_event without the final replace(previous_state)
post_internal_event_noRestore(m, c, in_state_id, t, on_event) ==
    LET m1 == [m EXCEPT !.state = "InAction",
                        !.trace = Append(@, Callback(on_event, in_state_id, t))]
        actions == CASE on_event = "Init" -> c.on_init
                     [] on_event = "Done" -> c.on_done
                     [] on_event = "Entry" -> c.states[in_state_id].on_entry
                     [] on_event = "Run" -> c.states[in_state_id].on_run
                     [] on_event = "Exit" -> c.states[in_state_id].on_exit
                     [] on_event = "Transition" -> c.states[in_state_id].transitions[t].actions
    IN  IF m.panicked THEN m ELSE run_actions(m1, in_state_id, on_event, actions)

\* StateMachineInstance::post_internal_event; t is the index of the
\* transition in the state's list (0 when no transition is passed)
post_internal_event(m, c, in_state_id, t, on_event) ==
    LET previous_state == m.state
        m1 == [m EXCEPT !.state = "InAction",
                        !.trace = Append(@, Callback(on_event, in_state_id, t))]
        actions == CASE on_event = "Init" -> c.on_init
                     [] on_event = "Done" -> c.on_done
                     [] on_event = "Entry" -> c.states[in_state_id].on_entry
                     [] on_event = "Run" -> c.states[in_state_id].on_run
                     [] on_event = "Exit" -> c.states[in_state_id].on_exit
                     [] on_event = "Transition" -> c.states[in_state_id].transitions[t].actions
        m2 == run_actions(m1, in_state_id, on_event, actions)
    IN  IF m.panicked THEN m
        ELSE IF m2.panicked THEN m2
        ELSE [m2 EXCEPT !.state = previous_state]

RECURSIVE all_conditions_eager(_, _, _, _, _)
\* the conjunction of the conditions with every one of them evaluated
all_conditions_eager(m, id, t, conditions, on_event) ==
    IF m.panicked THEN [m |-> m, ok |-> FALSE]
    ELSE IF conditions = <<>> THEN [m |-> m, ok |-> TRUE]
    ELSE LET m1 == [m EXCEPT !.trace = Append(@, Callback("Guard", id, t))]
             rest == all_conditions_eager(m1, id, t, Tail(conditions), on_event)
         IN  IF Head(conditions) = "panic" THEN [m |-> [m1 EXCEPT !.panicked = TRUE], ok |-> FALSE]
             ELSE [m |-> rest.m, ok |-> rest.ok /\ condition(Head(conditions), id, on_event, m.context)]

RECURSIVE all_conditions(_, _, _, _, _)
\* transition.conditions().all(|c| c(id, on_event, context)): in list order,
\* stopping at the first condition that is false
all_conditions(m, id, t, conditions, on_event) ==
    IF m.panicked THEN [m |-> m, ok |-> FALSE]
    ELSE IF conditions = <<>> THEN [m |-> m, ok |-> TRUE]
    ELSE LET m1 == [m EXCEPT !.trace = Append(@, Callback("Guard", id, t))]
         IN  IF Head(conditions) = "panic" THEN [m |-> [m1 EXCEPT !.panicked = TRUE], ok |-> FALSE]
             ELSE IF ~condition(Head(conditions), id, on_event, m.context) THEN [m |-> m1, ok |-> FALSE]
             ELSE all_conditions(m1, id, t, Tail(conditions), on_event)

\* fire_state_transitions firing whatever the conditions answer
fire_state_transitions_unguarded(m, c, from_state, t, on_event) ==
    LET transition == c.states[from_state].transitions[t]
        g == all_conditions(m, from_state, t, transition.conditions, on_event)
    IN  IF m.panicked THEN [m |-> m, out |-> None]
        ELSE IF on_event = transition.event THEN
            IF g.m.panicked THEN [m |-> g.m, out |-> None]
            ELSE [m |-> post_internal_event(g.m, c, from_state, t, "Transition"),
                  out |-> transition.target]
        ELSE [m |-> m, out |-> None]

\* StateMachineInstance::fire_state_transitions: the machine after it and
\* the Option<StateID> it returns
fire_state_transitions(m, c, from_state, t, on_event) ==
    LET transition == c.states[from_state].transitions[t]
        g == all_conditions(m, from_state, t, transition.conditions, on_event)
    IN  IF m.panicked THEN [m |-> m, out |-> None]
        ELSE IF on_event = transition.event THEN
            IF g.m.panicked THEN [m |-> g.m, out |-> None]
            ELSE IF g.ok THEN
                [m |-> post_internal_event(g.m, c, from_state, t, "Transition"),
                 out |-> transition.target]
            ELSE [m |-> g.m, out |-> None]
        ELSE [m |-> m, out |-> None]

RECURSIVE fire_all(_, _, _, _, _)
\* transitions.iter().filter_map(|t| self.fire_state_transitions(..)).collect()
fire_all(m, c, from_state, ts, on_event) ==
    IF ts = <<>> THEN [m |-> m, out |-> <<>>]
    ELSE LET r == fire_state_transitions(m, c, from_state, Head(ts), on_event)
             rest == fire_all(r.m, c, from_state, Tail(ts), on_event)
         IN  [m |-> rest.m, out |-> r.out \o rest.out]

RECURSIVE matching(_, _, _)
\* the indices, in declaration order from i on, of the transitions whose
\* event equals on_event
matching(transitions, on_event, i) ==
    IF i > Len(transitions) THEN <<>>
    ELSE (IF transitions[i].event = on_event THEN <<i>> ELSE <<>>)
         \o matching(transitions, on_event, i + 1)

\* handle_transition running the Exit actions whenever a transition matches
handle_transition_alwaysExit(m, c, from_state, on_event) ==
    LET all == c.states[from_state].transitions
        transitions == matching(all, on_event, 1)
        m1 == post_internal_event(m, c, from_state, 0, "Exit")
    IN  IF m.panicked THEN [m |-> m, out |-> <<>>]
        ELSE IF transitions # <<>> THEN fire_all(m1, c, from_state, transitions, on_event)
        ELSE [m |-> m, out |-> <<>>]

\* handle_transition running the Exit actions after the transitions
handle_transition_exitLast(m, c, from_state, on_event) ==
    LET all == c.states[from_state].transitions
        transitions == matching(all, on_event, 1)
        r == fire_all(m, c, from_state, transitions, on_event)
    IN  IF m.panicked THEN [m |-> m, out |-> <<>>]
        ELSE IF transitions # <<>> THEN
            IF \E i \in Range(transitions) : ~all[i].internal
            THEN [m |-> post_internal_event(r.m, c, from_state, 0, "Exit"), out |-> r.out]
            ELSE r
        ELSE [m |-> m, out |-> <<>>]

\* StateMachineInstance::handle_transition: the machine after it and the
\* Vec<StateID> it returns
handle_transition(m, c, from_state, on_event) ==
    LET all == c.states[from_state].transitions
        transitions == matching(all, on_event, 1)
        m1 == IF \E i \in Range(transitions) : ~all[i].internal
              THEN post_internal_event(m, c, from_state, 0, "Exit")
              ELSE m
    IN  IF m.panicked THEN [m |-> m, out |-> <<>>]
        ELSE IF transitions # <<>> THEN fire_all(m1, c, from_state, transitions, on_event)
        ELSE [m |-> m, out |-> <<>>]

\* StateMachineInstance::enter_state
enter_state(m, c, state_id, internal) ==
    LET m1 == IF ~internal
              THEN post_internal_event(post_internal_event(m, c, state_id, 0, "Entry"),
                                       c, state_id, 0, "Run")
              ELSE m
    IN  handle_transition(m1, c, state_id, None)

\* check_done without the test that the active configuration is not empty
check_done_emptyIsDone(m, c, act) ==
    LET done == \A id \in act : c.states[id].kind.k = "Final"
        m1 == post_internal_event(m, c, INVALID_STATE_TAG_VALUE, 0, "Done")
    IN  IF m.panicked THEN m
        ELSE IF \E id \in act : ~has_state(c, id) THEN [m EXCEPT !.panicked = TRUE]
        ELSE IF done THEN (IF m1.panicked THEN m1 ELSE [m1 EXCEPT !.state = "Done"])
        ELSE [m EXCEPT !.state = "Active"]

\* check_done running the done actions whether the instance is done or not
check_done_alwaysActions(m, c, act) ==
    LET done == act # {} /\ \A id \in act : c.states[id].kind.k = "Final"
        m1 == post_internal_event(m, c, INVALID_STATE_TAG_VALUE, 0, "Done")
    IN  IF m.panicked THEN m
        ELSE IF \E id \in act : ~has_state(c, id) THEN [m EXCEPT !.panicked = TRUE]
        ELSE IF m1.panicked THEN m1
        ELSE [m1 EXCEPT !.state = IF done THEN "Done" ELSE "Active"]

\* StateMachineInstance::check_done, on the active configuration act; the
\* unwrap of get_state panics on an id that names no state, which the
\* targets of a validated definition never are
check_done(m, c, act) ==
    LET done == act # {} /\ \A id \in act : c.states[id].kind.k = "Final"
        m1 == post_internal_event(m, c, INVALID_STATE_TAG_VALUE, 0, "Done")
    IN  IF m.panicked THEN m
        ELSE IF \E id \in act : ~has_state(c, id) THEN [m EXCEPT !.panicked = TRUE]
        ELSE IF done THEN (IF m1.panicked THEN m1 ELSE [m1 EXCEPT !.state = "Done"])
        ELSE [m EXCEPT !.state = "Active"]

RECURSIVE handle_each(_, _, _, _)
\* the body of post: active_states().map(handle_transition).flatten(), the
\* active states taken in the order ord
handle_each(m, c, ord, on_event) ==
    IF ord = <<>> THEN [m |-> m, out |-> <<>>]
    ELSE LET r == handle_transition(m, c, Head(ord), on_event)
             rest == handle_each(r.m, c, Tail(ord), on_event)
         IN  [m |-> rest.m, out |-> r.out \o rest.out]

\* StateMachineInstance::accepts
accepts(c, act) == UNION {state_accepts(c.states[id]) : id \in act}

----------------------------------------------------------------------------
(* The public calls, as functions of the instance they are made on.  Each  *)
(* gives the instance after the call, the result returned ("Ok", an        *)
(* ErrorKind, or "panic" when a closure's panic unwinds out of the call)   *)
(* and the callbacks run.                                                  *)

Machine(inst) == [context |-> inst.context, state |-> inst.state, trace |-> <<>>, panicked |-> FALSE]

Outcome(act, m, result) ==
    [active |-> act, context |-> m.context, state |-> m.state, result |-> result, trace |-> m.trace]

Refused(inst, error) ==
    [active |-> inst.active, context |-> inst.context, state |-> inst.state,
     result |-> error, trace |-> <<>>]

\* execute without the check that the instance is done
execute_refusal_skipDone(s) ==
    IF is_active(s) THEN "InstanceIsActive"
    ELSE IF is_in_action(s) THEN "EventDuringAction"
    ELSE "Ok"

\* execute without the check that the instance is active
execute_refusal_skipActive(s) ==
    IF is_done(s) THEN "InstanceIsDone"
    ELSE IF is_in_action(s) THEN "EventDuringAction"
    ELSE "Ok"

\* the checks at the head of StateMachineInstance::execute
execute_refusal(s) ==
    IF is_done(s) THEN "InstanceIsDone"
    ELSE IF is_active(s) THEN "InstanceIsActive"
    ELSE IF is_in_action(s) THEN "EventDuringAction"
    ELSE "Ok"

\* post without the check that the instance is active
post_refusal_skipActive(s) ==
    IF is_done(s) THEN "InstanceIsDone"
    ELSE IF is_in_action(s) THEN "EventDuringAction"
    ELSE "Ok"

\* post without the check that the instance is done
post_refusal_skipDone(s) ==
    IF ~is_active(s) /\ ~is_done(s) THEN "InstanceIsNotActive"
    ELSE IF is_in_action(s) THEN "EventDuringAction"
    ELSE "Ok"

\* the checks at the head of StateMachineInstance::post
post_refusal(s) ==
    IF is_done(s) THEN "InstanceIsDone"
    ELSE IF ~is_active(s) THEN "InstanceIsNotActive"
    ELSE IF is_in_action(s) THEN "EventDuringAction"
    ELSE "Ok"

\* StateMachineInstance::execute
execute(inst, c) ==
    LET m1 == post_internal_event(Machine(inst), c, c.initial, 0, "Init")
        r == enter_state(m1, c, c.initial, FALSE)
        act == Range(r.out)
        m2 == check_done(r.m, c, act)
    IN  IF execute_refusal(inst.state) # "Ok" THEN Refused(inst, execute_refusal(inst.state))
        ELSE IF r.m.panicked THEN Outcome(inst.active, r.m, "panic")
        ELSE IF m2.panicked THEN Outcome(act, m2, "panic")
        ELSE Outcome(act, m2, "Ok")

\* post keeping the states that were active next to the targets
post_keepSources(inst, c, event, ord) ==
    LET r == handle_each(Machine(inst), c, ord, Some(event))
        act == Range(r.out) \cup inst.active
        m2 == check_done(r.m, c, act)
    IN  IF post_refusal(inst.state) # "Ok" THEN Refused(inst, post_refusal(inst.state))
        ELSE IF r.m.panicked THEN Outcome(inst.active, r.m, "panic")
        ELSE IF m2.panicked THEN Outcome(act, m2, "panic")
        ELSE Outcome(act, m2, "Ok")

\* post refusing an instance whose active configuration is empty
post_refuseEmpty(inst, c, event, ord) ==
    LET r == handle_each(Machine(inst), c, ord, Some(event))
        act == Range(r.out)
        m2 == check_done(r.m, c, act)
    IN  IF post_refusal(inst.state) # "Ok" THEN Refused(inst, post_refusal(inst.state))
        ELSE IF inst.active = {} THEN Refused(inst, "InstanceIsNotActive")
        ELSE IF r.m.panicked THEN Outcome(inst.active, r.m, "panic")
        ELSE IF m2.panicked THEN Outcome(act, m2, "panic")
        ELSE Outcome(act, m2, "Ok")

\* StateMachineInstance::post, the active states iterated in the order ord
post(inst, c, event, ord) ==
    LET r == handle_each(Machine(inst), c, ord, Some(event))
        act == Range(r.out)
        m2 == check_done(r.m, c, act)
    IN  IF post_refusal(inst.state) # "Ok" THEN Refused(inst, post_refusal(inst.state))
        ELSE IF r.m.panicked THEN Outcome(inst.active, r.m, "panic")
        ELSE IF m2.panicked THEN Outcome(act, m2, "panic")
        ELSE Outcome(act, m2, "Ok")

----------------------------------------------------------------------------
(* The definitions the model is run on *)

StateIDs == {"init", "s1", "s2", "p", "b1", "b2", "c", "ci", "h", "f1", "f2"}

Events == {"x", "y", "z"}

Plain(kind, transitions) == State(kind, transitions, <<>>, <<>>, <<>>)

Go(event, target) == Transition(event, Some(target), FALSE, <<>>, <<>>)

\* the transitions the state under test may carry
Catalogue ==
    { Transition(Some("x"), Some("f1"), FALSE, <<>>, <<"inc">>),
      Transition(Some("x"), Some("f2"), FALSE, <<"never">>, <<"inc">>),
      Transition(Some("x"), Some("s2"), FALSE, <<"ctxZero">>, <<>>),
      Transition(Some("x"), None, TRUE, <<>>, <<"inc">>),
      Transition(Some("x"), Some("f2"), FALSE, <<>>, <<"nop">>),
      Transition(Some("x"), Some("f2"), FALSE, <<"ctxPos">>, <<>>),
      Transition(Some("y"), Some("s1"), FALSE, <<>>, <<>>),
      Transition(Some("y"), Some("f2"), TRUE, <<"always", "ctxPos">>, <<>>),
      Transition(None, Some("s2"), FALSE, <<>>, <<>>) }

\* init -> s1 on completion; s1 carries the transition list ts
Sequential(ts) ==
    StateMachine(
        [id \in {"init", "s1", "s2", "f1", "f2"} |->
            CASE id = "init" -> State(Initial, <<Go(None, "s1")>>, <<>>, <<"nop">>, <<>>)
              [] id = "s1" -> State(Atomic, ts, <<"inc">>, <<>>, <<"nop">>)
              [] id = "s2" -> State(Atomic, <<Go(Some("y"), "f2")>>, <<"inc">>, <<>>, <<>>)
              [] OTHER -> Plain(Final, <<>>)],
        "init", <<>>, <<>>)

\* init -> f1 on completion (the machine of tests::test_simple_machine)
Simple ==
    StateMachine(
        [id \in {"init", "f1"} |->
            IF id = "init" THEN Plain(Initial, <<Go(None, "f1")>>) ELSE Plain(Final, <<>>)],
        "init", <<>>, <<>>)

\* init -> p on completion, p orthogonal with the children b1 and b2
Parallel ==
    StateMachine(
        [id \in {"init", "p", "b1", "b2", "f1", "f2"} |->
            CASE id = "init" -> Plain(Initial, <<Go(None, "p")>>)
              [] id = "p" -> Plain(Orthogonal(<<"b1", "b2">>), <<Go(Some("x"), "p")>>)
              [] id = "b1" -> Plain(Atomic, <<Go(Some("x"), "f1")>>)
              [] id = "b2" -> Plain(Atomic, <<Go(Some("y"), "f2")>>)
              [] OTHER -> Plain(Final, <<>>)],
        "init", <<>>, <<>>)

\* init has two completion transitions, to s1 and to s2
Fork ==
    StateMachine(
        [id \in {"init", "s1", "s2", "f1", "f2"} |->
            CASE id = "init" -> Plain(Initial, <<Go(None, "s1"), Go(None, "s2")>>)
              [] id = "s1" -> State(Atomic, <<Transition(Some("x"), Some("f1"), FALSE, <<>>, <<"inc">>)>>,
                                    <<>>, <<>>, <<"inc">>)
              [] id = "s2" -> Plain(Atomic, <<Transition(Some("x"), Some("f2"), FALSE, <<"ctxZero">>, <<>>),
                                              Go(Some("y"), "f2")>>)
              [] OTHER -> Plain(Final, <<>>)],
        "init", <<>>, <<>>)

\* init -> c on completion, c composite with the initial child ci, and a
\* history state h
Nested ==
    StateMachine(
        [id \in {"init", "c", "ci", "s1", "h", "s2", "f1"} |->
            CASE id = "init" -> Plain(Initial, <<Go(None, "c")>>)
              [] id = "c" -> Plain(Composite(<<"ci", "s1", "h">>, "ci"), <<Go(Some("y"), "s2")>>)
              [] id = "ci" -> Plain(Initial, <<Go(None, "s1")>>)
              [] id = "s1" -> Plain(Atomic, <<Go(Some("y"), "s2")>>)
              [] id = "h" -> Plain(History(FALSE), <<>>)
              [] id = "s2" -> Plain(Atomic, <<Go(Some("x"), "h"), Go(Some("y"), "f1")>>)
              [] OTHER -> Plain(Final, <<>>)],
        "init", <<>>, <<>>)

\* as Nested, but the initial state leads straight to s1, a child of c, so
\* that a child of the composite is active before h is targeted
Recall ==
    StateMachine(
        [id \in {"init", "c", "ci", "s1", "h", "s2", "f1"} |->
            CASE id = "init" -> Plain(Initial, <<Go(None, "s1")>>)
              [] id = "c" -> Plain(Composite(<<"ci", "s1", "h">>, "ci"), <<>>)
              [] id = "ci" -> Plain(Initial, <<Go(None, "s1")>>)
              [] id = "s1" -> Plain(Atomic, <<Go(Some("y"), "s2")>>)
              [] id = "h" -> Plain(History(FALSE), <<>>)
              [] id = "s2" -> Plain(Atomic, <<Go(Some("x"), "h"), Go(Some("y"), "f1")>>)
              [] OTHER -> Plain(Final, <<>>)],
        "init", <<>>, <<>>)

\* completion transitions init -> s1 -> s2 only
Chain ==
    StateMachine(
        [id \in {"init", "s1", "s2", "f1"} |->
            CASE id = "init" -> Plain(Initial, <<Go(None, "s1")>>)
              [] id = "s1" -> State(Atomic, <<Go(None, "s2")>>, <<"inc">>, <<"inc">>, <<>>)
              [] id = "s2" -> Plain(Atomic, <<Go(Some("x"), "f1")>>)
              [] OTHER -> Plain(Final, <<>>)],
        "init", <<>>, <<>>)

\* the initial state has no transition at all
Idle ==
    StateMachine(
        [id \in {"init", "f1"} |-> IF id = "init" THEN Plain(Initial, <<>>) ELSE Plain(Final, <<>>)],
        "init", <<>>, <<>>)

\* machine-level init and done actions; a names the action run on the way
\* to f1, g the guard of that transition
Hooked(on_init, on_done, g, a) ==
    StateMachine(
        [id \in {"init", "s1", "f1"} |->
            CASE id = "init" -> Plain(Initial, <<Go(None, "s1")>>)
              [] id = "s1" -> Plain(Atomic, <<Transition(Some("x"), Some("f1"), FALSE, <<g>>, <<"inc", a>>)>>)
              [] OTHER -> Plain(Final, <<>>)],
        "init", on_init, on_done)

\* definitions that validate() rejects
NoFinal ==
    StateMachine([id \in {"init"} |-> Plain(Initial, <<>>)], "init", <<>>, <<>>)

Dangling ==
    StateMachine(
        [id \in {"init", "f1"} |->
            IF id = "init" THEN Plain(Initial, <<Go(None, "s1")>>) ELSE Plain(Final, <<>>)],
        "init", <<>>, <<>>)

Charts ==
    {Sequential(ts) : ts \in SeqsUpTo(Catalogue, MaxTrans)}
    \cup {Simple, Parallel, Fork, Nested, Recall, Chain, Idle, NoFinal, Dangling}
    \cup {Hooked(<<"inc">>, <<"inc">>, "always", "nop"),
          Hooked(<<>>, <<>>, "always", "panic"),
          Hooked(<<"panic">>, <<>>, "always", "nop"),
          Hooked(<<>>, <<"inc", "panic">>, "always", "nop"),
          Hooked(<<>>, <<>>, "panic", "nop")}

----------------------------------------------------------------------------
(* The state machine of the model: one definition, one instance, and a     *)
(* caller that makes any call at any time                                  *)

Instance == [active |-> active, context |-> context, state |-> state]

Count(trace, tag) == Cardinality({i \in 1..Len(trace) : trace[i].tag = tag})

Bump(n, k) == IF k = 0 THEN n ELSE Sat(n)

\* the Composite states of c that list id among their children
Owners(c, id) ==
    {o \in DOMAIN c.states :
        c.states[o].kind.k = "Composite" /\ id \in Range(c.states[o].kind.child_states)}

\* the child of a Composite that left the active configuration last: gone
\* are the states a call has just removed, before is the earlier value
LastExited(c, gone, before) ==
    IF \E d \in gone : Owners(c, d) # {}
    THEN Some(CHOOSE d \in gone : Owners(c, d) # {})
    ELSE before

\* Array::default, no call made on it yet
NoArray ==
    [inner |-> <<>>, op |-> "none", key |-> 0, result |-> None, panicked |-> FALSE, pre |-> <<>>]

\* IntegerGenerator::default, with every thread outside next()
NoGenerator ==
    [current |-> 0, pc |-> [t \in {1, 2} |-> "idle"], value |-> [t \in {1, 2} |-> 0],
     issued |-> {}, last |-> None, repeated |-> FALSE, calls |-> 0]

\* StateMachineBuilder::default, and no StateBuilder in the caller's hands
NoBuilder == [states |-> [id \in {} |-> None], initial |-> INVALID_STATE_TAG_VALUE, draft |-> None]

\* the second instance before it is made
NoPeer ==
    [created |-> FALSE, active |-> {}, context |-> 0, state |-> "New",
     result |-> "Ok", trace |-> <<>>, wide |-> FALSE]

\* the second instance as StateMachineInstance::new(chart, ctx) returns it
NewPeer(ctx) == [NoPeer EXCEPT !.created = TRUE, !.context = ctx]

\* the second instance after a call with outcome o
PeerAfter(o) ==
    [created |-> TRUE, active |-> o.active, context |-> o.context, state |-> o.state,
     result |-> o.result, trace |-> o.trace, wide |-> peer.wide \/ Cardinality(o.active) > 1]

Init ==
    /\ chart \in Charts
    /\ created = FALSE
    /\ active = {}
    /\ context = 0
    /\ state = "New"
    /\ call = [op |-> "none", arg |-> None, result |-> "Ok", trace |-> <<>>,
               pre |-> [active |-> {}, context |-> 0, state |-> "New"]]
    /\ hist = [executed |-> FALSE, early |-> FALSE, inits |-> 0, dones |-> 0, exited |-> None,
               aborted |-> FALSE, wide |-> FALSE]
    /\ peer = NoPeer
    /\ builder = NoBuilder
    /\ array = NoArray
    /\ gen = NoGenerator

\* new without the assertion on validate
NewInstance_unchecked(ctx) ==
    /\ call.op = "none"
    /\ created' = TRUE
    /\ active' = {}
    /\ context' = ctx
    /\ state' = "New"
    /\ call' = [op |-> "new", arg |-> None, result |-> "Ok",
                trace |-> <<>>, pre |-> [active |-> {}, context |-> ctx, state |-> "New"]]
    /\ UNCHANGED <<chart, hist, peer, builder, array, gen>>

\* StateMachineInstance::new(chart, ctx): asserts that the chart validates
New(ctx) ==
    /\ call.op = "none"
    /\ created' = ("Ok" \in validate(chart))
    /\ active' = {}
    /\ context' = ctx
    /\ state' = "New"
    /\ call' = [op |-> "new", arg |-> None,
                result |-> IF "Ok" \in validate(chart) THEN "Ok" ELSE "panic",
                trace |-> <<>>, pre |-> [active |-> {}, context |-> ctx, state |-> "New"]]
    /\ UNCHANGED <<chart, hist, builder, array, gen>>

NewInstance(ctx) == New(ctx) /\ UNCHANGED peer

\* what a call with outcome o writes: the fields of the instance, and the
\* record of the call
Write(op, arg, o) ==
    /\ active' = o.active
    /\ context' = o.context
    /\ state' = o.state
    /\ call' = [op |-> op, arg |-> arg, result |-> o.result, trace |-> o.trace, pre |-> Instance]
    /\ hist' = [executed |-> hist.executed \/ (op = "execute" /\ o.result = "Ok"),
                early |-> hist.early \/ (op = "post" /\ state = "New"),
                inits |-> Bump(hist.inits, Count(o.trace, "Init")),
                dones |-> Bump(hist.dones, Count(o.trace, "Done")),
                exited |-> LastExited(chart, active \ o.active, hist.exited),
                aborted |-> hist.aborted \/ o.result = "panic",
                wide |-> hist.wide \/ Cardinality(o.active) > 1]
    /\ UNCHANGED <<chart, created, builder, array, gen>>

Apply(op, arg, o) == Write(op, arg, o) /\ UNCHANGED peer

Execute ==
    /\ created
    /\ Apply("execute", None, execute(Instance, chart))

Post(event) ==
    /\ created
    /\ \E ord \in Orders(active) : Apply("post", Some(event), post(Instance, chart, event, ord))

Next ==
    \/ \E ctx \in 0..MaxCtx : NewInstance(ctx)
    \/ Execute
    \/ \E event \in Events : Post(event)

Spec == Init /\ [][Next]_vars

----------------------------------------------------------------------------
(* Validation of well-formed and of defective definitions: the definition  *)
(* is drawn from a family that holds each defect alone and in combination, *)
(* and the caller may validate it and make an instance of it.               *)

Malformed == Transition(None, None, FALSE, <<>>, <<>>)

KindsOfInit == {Initial, Atomic}

KindsOfS1 ==
    {Atomic, Composite(<<>>, "init"), Composite(<<"f1">>, "init"), Composite(<<"f1">>, "s1"),
     Composite(<<"f1">>, "zz"), Orthogonal(<<>>), Orthogonal(<<"f1">>), Orthogonal(<<"zz">>)}

KindsOfF1 == {Final, Atomic}

TransitionsOfInit ==
    {<<>>, <<Go(None, "s1")>>, <<Go(None, "zz")>>, <<Malformed>>,
     <<Transition(None, None, TRUE, <<"always">>, <<>>)>>}

TransitionsOfF1 == {<<>>, <<Go(Some("x"), "s1")>>, <<Go(Some("x"), "zz")>>}

Drafts ==
    {StateMachine([id \in {} |-> Plain(Atomic, <<>>)], "init", <<>>, <<>>)}
    \cup
    {StateMachine(
        [id \in {"init", "s1", "f1"} |->
            CASE id = "init" -> Plain(ki, ti)
              [] id = "s1" -> Plain(ks, <<Go(Some("x"), "f1")>>)
              [] OTHER -> Plain(kf, tf)],
        initial, <<>>, <<>>) :
        ki \in KindsOfInit, ks \in KindsOfS1, kf \in KindsOfF1,
        ti \in TransitionsOfInit, tf \in TransitionsOfF1, initial \in {"init", "f1", "zz"}}

InitDraft ==
    /\ chart \in Drafts
    /\ created = FALSE
    /\ active = {}
    /\ context = 0
    /\ state = "New"
    /\ call = [op |-> "none", arg |-> None, result |-> "Ok", trace |-> <<>>,
               pre |-> [active |-> {}, context |-> 0, state |-> "New"]]
    /\ hist = [executed |-> FALSE, early |-> FALSE, inits |-> 0, dones |-> 0, exited |-> None,
               aborted |-> FALSE, wide |-> FALSE]
    /\ peer = NoPeer
    /\ builder = NoBuilder
    /\ array = NoArray
    /\ gen = NoGenerator

\* a call of StateMachine::validate on the definition
Validate ==
    /\ \E r \in validate(chart) :
          call' = [op |-> "validate", arg |-> None, result |-> r, trace |-> <<>>, pre |-> Instance]
    /\ UNCHANGED <<chart, created, active, context, state, hist, peer, builder, array, gen>>

NextDraft ==
    \/ Validate
    \/ \E ctx \in 0..MaxCtx : NewInstance(ctx)
    \/ Execute
    \/ \E event \in Events : Post(event)

SpecValidate == InitDraft /\ [][NextDraft]_vars

----------------------------------------------------------------------------
(* Two instances made from one shared definition, called in any order *)

SharedCharts ==
    {Sequential(ts) : ts \in SeqsUpTo(Catalogue, 1)}
    \cup {Simple, Fork, Chain, Hooked(<<"inc">>, <<"inc">>, "always", "nop"),
          Hooked(<<>>, <<>>, "always", "panic")}

InitShared ==
    /\ chart \in SharedCharts
    /\ created = FALSE
    /\ active = {}
    /\ context = 0
    /\ state = "New"
    /\ call = [op |-> "none", arg |-> None, result |-> "Ok", trace |-> <<>>,
               pre |-> [active |-> {}, context |-> 0, state |-> "New"]]
    /\ hist = [executed |-> FALSE, early |-> FALSE, inits |-> 0, dones |-> 0, exited |-> None,
               aborted |-> FALSE, wide |-> FALSE]
    /\ peer = NoPeer
    /\ builder = NoBuilder
    /\ array = NoArray
    /\ gen = NoGenerator

\* StateMachineInstance::new(chart.clone(), ctx) for the second instance
PeerNew(ctx) ==
    /\ created
    /\ ~peer.created
    /\ peer' = NewPeer(ctx)
    /\ UNCHANGED <<chart, created, active, context, state, call, hist, builder, array, gen>>

\* a call on the second instance that wrote the fields of both instances
PeerApply_shared(o) ==
    /\ peer' = PeerAfter(o)
    /\ active' = o.active
    /\ context' = o.context
    /\ state' = o.state
    /\ UNCHANGED <<chart, created, call, hist, builder, array, gen>>

\* the fields a call on the second instance writes: its own active, context
\* and state
PeerApply(o) ==
    /\ peer' = PeerAfter(o)
    /\ UNCHANGED <<chart, created, active, context, state, call, hist, builder, array, gen>>

PeerExecute ==
    /\ peer.created
    /\ PeerApply(execute(peer, chart))

PeerPost(event) ==
    /\ peer.created
    /\ \E ord \in Orders(peer.active) : PeerApply(post(peer, chart, event, ord))

NextShared ==
    \/ \E ctx \in 0..MaxCtx : NewInstance(ctx)
    \/ Execute
    \/ \E event \in Events : Post(event)
    \/ \E ctx \in 0..MaxCtx : PeerNew(ctx)
    \/ PeerExecute
    \/ \E event \in Events : PeerPost(event)

SpecShared == InitShared /\ [][NextShared]_vars

----------------------------------------------------------------------------
(* Two instances of one definition, made with equal contexts and given the *)
(* same calls; each iterates its own HashSet in an order of its own.       *)

\* a transition whose second guard is reached only if the first one, which
\* is false, does not end the evaluation
Guarded == Transition(Some("x"), Some("f1"), FALSE, <<"never", "panic">>, <<"inc">>)

PairCharts ==
    {Sequential(ts) : ts \in SeqsUpTo(Catalogue \cup {Guarded}, MaxTrans)}
    \cup {Simple, Fork, Chain, Idle, Hooked(<<"inc">>, <<"inc">>, "always", "nop")}

InitPair ==
    /\ chart \in PairCharts
    /\ created = FALSE
    /\ active = {}
    /\ context = 0
    /\ state = "New"
    /\ call = [op |-> "none", arg |-> None, result |-> "Ok", trace |-> <<>>,
               pre |-> [active |-> {}, context |-> 0, state |-> "New"]]
    /\ hist = [executed |-> FALSE, early |-> FALSE, inits |-> 0, dones |-> 0, exited |-> None,
               aborted |-> FALSE, wide |-> FALSE]
    /\ peer = NoPeer
    /\ builder = NoBuilder
    /\ array = NoArray
    /\ gen = NoGenerator

PairNew(ctx) ==
    /\ New(ctx)
    /\ peer' = IF "Ok" \in validate(chart) THEN NewPeer(ctx) ELSE peer

PairExecute ==
    /\ created
    /\ Write("execute", None, execute(Instance, chart))
    /\ peer' = PeerAfter(execute(peer, chart))

PairPost(event) ==
    /\ created
    /\ \E ord \in Orders(active) : Write("post", Some(event), post(Instance, chart, event, ord))
    /\ \E ord \in Orders(peer.active) : peer' = PeerAfter(post(peer, chart, event, ord))

NextPair ==
    \/ \E ctx \in 0..MaxCtx : PairNew(ctx)
    \/ PairExecute
    \/ \E event \in Events : PairPost(event)

SpecPair == InitPair /\ [][NextPair]_vars

----------------------------------------------------------------------------
(* The builder: the caller makes StateBuilders, gives them children and    *)
(* transitions, hands them to the StateMachineBuilder and converts it.     *)

MaxChildren == 2

\* StateBuilder::make
make(kind, id) ==
    [id |-> id, kind |-> kind, transitions |-> <<>>, child_states |-> <<>>,
     on_entry |-> <<>>, body |-> <<>>, on_exit |-> <<>>]

\* StateBuilder::transition
transition(sb, tr) ==
    [sb EXCEPT !.transitions =
        Append(@, IF tr.target = Some(INVALID_STATE_TAG_VALUE)
                  THEN [tr EXCEPT !.target = Some(sb.id)] ELSE tr)]

\* StateBuilder::child
child(sb, st) == [sb EXCEPT !.child_states = Append(@, st)]

\* StateBuilder::build
build(sb) == State(sb.kind, sb.transitions, sb.on_entry, sb.body, sb.on_exit)

\* StateMachineBuilder::state
add_state(b, sb) ==
    [b EXCEPT !.states = [id \in DOMAIN b.states \cup {sb.id} |->
                             IF id = sb.id THEN sb ELSE b.states[id]],
              !.initial = IF sb.kind = Initial THEN sb.id ELSE @]

\* From<&mut StateMachineBuilder> for Rc<StateMachine>
from(b) == StateMachine([id \in DOMAIN b.states |-> build(b.states[id])], b.initial, <<>>, <<>>)

\* the StateBuilders the caller makes: initial_with_id, compound_with_id,
\* parallel_with_id, atomic_with_id
Parents ==
    {make(Initial, "init"), make(Composite(<<>>, INVALID_STATE_TAG_VALUE), "c"),
     make(Orthogonal(<<>>), "p")}

Children == {make(Atomic, "a"), make(Initial, "ci")}

Arrows ==
    {Go(None, "c"), Transition(Some("y"), Some(INVALID_STATE_TAG_VALUE), FALSE, <<>>, <<>>)}

InitBuilder ==
    /\ chart = from(NoBuilder)
    /\ created = FALSE
    /\ active = {}
    /\ context = 0
    /\ state = "New"
    /\ call = [op |-> "none", arg |-> None, result |-> "Ok", trace |-> <<>>,
               pre |-> [active |-> {}, context |-> 0, state |-> "New"]]
    /\ hist = [executed |-> FALSE, early |-> FALSE, inits |-> 0, dones |-> 0, exited |-> None,
               aborted |-> FALSE, wide |-> FALSE]
    /\ peer = NoPeer
    /\ builder = NoBuilder
    /\ array = NoArray
    /\ gen = NoGenerator

Frame == UNCHANGED <<chart, created, active, context, state, call, hist, peer, array, gen>>

MakeState ==
    /\ call.op = "none"
    /\ builder.draft = None
    /\ \E sb \in Parents :
          /\ sb.id \notin DOMAIN builder.states
          /\ builder' = [builder EXCEPT !.draft = Some(sb)]
    /\ Frame

\* the caller gives children to the compound and parallel states it makes
AddChild ==
    /\ builder.draft # None
    /\ builder.draft[1].kind.k \in {"Composite", "Orthogonal"}
    /\ Len(builder.draft[1].child_states) < MaxChildren
    /\ \E st \in Children :
          /\ \A i \in 1..Len(builder.draft[1].child_states) : builder.draft[1].child_states[i] # st
          /\ builder' = [builder EXCEPT !.draft = Some(child(builder.draft[1], st))]
    /\ Frame

AddTransition ==
    /\ builder.draft # None
    /\ builder.draft[1].transitions = <<>>
    /\ \E tr \in Arrows : builder' = [builder EXCEPT !.draft = Some(transition(builder.draft[1], tr))]
    /\ Frame

AddState ==
    /\ builder.draft # None
    /\ builder' = [add_state(builder, builder.draft[1]) EXCEPT !.draft = None]
    /\ Frame

Convert ==
    /\ call.op = "none"
    /\ builder.draft = None
    /\ chart' = from(builder)
    /\ call' = [call EXCEPT !.op = "from"]
    /\ UNCHANGED <<created, active, context, state, hist, peer, builder, array, gen>>

NextBuilder == MakeState \/ AddChild \/ AddTransition \/ AddState \/ Convert

SpecBuilder == InitBuilder /\ [][NextBuilder]_vars

----------------------------------------------------------------------------
(* The Array of the context module: a RefCell<Vec<FieldValue>> behind the  *)
(* Compound<usize> trait; keys count from 0.                               *)

MaxLen == 3

\* the FieldValues put in the array: FieldValue::Integer(0), Integer(1)
Values == {0, 1}

\* Compound<usize>::contains_key
contains_key(inner, key) == key < Len(inner)

\* Compound<usize>::get
get(inner, key) == IF key < Len(inner) THEN Some(inner[key + 1]) ELSE None

\* Vec::insert(key, value), which panics when key > len
insert(inner, key, value) ==
    IF key > Len(inner) THEN [inner |-> inner, result |-> None, panicked |-> TRUE]
    ELSE [inner |-> SubSeq(inner, 1, key) \o <<value>> \o SubSeq(inner, key + 1, Len(inner)),
          result |-> None, panicked |-> FALSE]

\* Compound<usize>::remove: None when key < len, else Vec::remove(key),
\* which panics when key >= len
remove(inner, key) ==
    IF key < Len(inner) THEN [inner |-> inner, result |-> None, panicked |-> FALSE]
    ELSE [inner |-> inner, result |-> None, panicked |-> TRUE]

\* Array::push
push(inner, value) == [inner |-> Append(inner, value), result |-> None, panicked |-> FALSE]

InitArray ==
    /\ chart = from(NoBuilder)
    /\ created = FALSE
    /\ active = {}
    /\ context = 0
    /\ state = "New"
    /\ call = [op |-> "none", arg |-> None, result |-> "Ok", trace |-> <<>>,
               pre |-> [active |-> {}, context |-> 0, state |-> "New"]]
    /\ hist = [executed |-> FALSE, early |-> FALSE, inits |-> 0, dones |-> 0, exited |-> None,
               aborted |-> FALSE, wide |-> FALSE]
    /\ peer = NoPeer
    /\ builder = NoBuilder
    /\ array = NoArray
    /\ gen = NoGenerator

\* a call on the array with outcome o
ArrayCall(op, key, o) ==
    /\ array' = [inner |-> o.inner, op |-> op, key |-> key, result |-> o.result,
                 panicked |-> o.panicked, pre |-> array.inner]
    /\ UNCHANGED <<chart, created, active, context, state, call, hist, peer, builder, gen>>

ArrayPush ==
    /\ Len(array.inner) < MaxLen
    /\ \E v \in Values : ArrayCall("push", Len(array.inner), push(array.inner, v))

ArrayInsert ==
    /\ Len(array.inner) < MaxLen
    /\ \E key \in 0..MaxLen : \E v \in Values : ArrayCall("insert", key, insert(array.inner, key, v))

ArrayRemove == \E key \in 0..MaxLen : ArrayCall("remove", key, remove(array.inner, key))

NextArray == ArrayPush \/ ArrayInsert \/ ArrayRemove

SpecArray == InitArray /\ [][NextArray]_vars

----------------------------------------------------------------------------
(* The generator of ID::random: one IntegerGenerator in a lazy_static,     *)
(* declared Sync by an unsafe impl, its counter in a RefCell.  A call of   *)
(* next() reads the counter and then writes it; between the two another    *)
(* thread may run.                                                         *)

MaxCalls == 4

Threads == {1, 2}

RECURSIVE to_string(_)
\* i64::to_string of a value that is not negative: its decimal digits
to_string(n) == IF n < 10 THEN <<n>> ELSE to_string(n \div 10) \o <<n % 10>>

InitID ==
    /\ chart = from(NoBuilder)
    /\ created = FALSE
    /\ active = {}
    /\ context = 0
    /\ state = "New"
    /\ call = [op |-> "none", arg |-> None, result |-> "Ok", trace |-> <<>>,
               pre |-> [active |-> {}, context |-> 0, state |-> "New"]]
    /\ hist = [executed |-> FALSE, early |-> FALSE, inits |-> 0, dones |-> 0, exited |-> None,
               aborted |-> FALSE, wide |-> FALSE]
    /\ peer = NoPeer
    /\ builder = NoBuilder
    /\ array = NoArray
    /\ gen = NoGenerator

Rest == UNCHANGED <<chart, created, active, context, state, call, hist, peer, builder, array>>

\* ID::random() entered by thread t: let value = *self.current.borrow()
ReadCurrent(t) ==
    /\ gen.pc[t] = "idle"
    /\ gen.calls < MaxCalls
    /\ gen' = [gen EXCEPT !.pc[t] = "read", !.value[t] = gen.current, !.calls = @ + 1]
    /\ Rest

\* *self.current.borrow_mut() = value + 1; value.to_string(), which
\* ID::random returns
WriteCurrent(t) ==
    /\ gen.pc[t] = "read"
    /\ gen' = [gen EXCEPT !.pc[t] = "idle",
                          !.current = gen.value[t] + 1,
                          !.last = Some(to_string(gen.value[t])),
                          !.issued = @ \cup {to_string(gen.value[t])},
                          !.repeated = @ \/ to_string(gen.value[t]) \in gen.issued]
    /\ Rest

\* the borrow flag of the RefCell is not atomic either: with another thread
\* inside next() the borrow_mut may find the cell borrowed and panic
BorrowPanic(t) ==
    /\ gen.pc[t] = "read"
    /\ \E u \in Threads \ {t} : gen.pc[u] = "read"
    /\ gen' = [gen EXCEPT !.pc[t] = "idle", !.last = None]
    /\ Rest

NextID == \E t \in Threads : ReadCurrent(t) \/ WriteCurrent(t) \/ BorrowPanic(t)

SpecID == InitID /\ [][NextID]_vars

----------------------------------------------------------------------------
(* Vocabulary of the properties *)

\* the last call was made on a live instance and did not unwind with a panic
Returned(ops) == created /\ call.op \in ops /\ call.result # "panic"

\* the last call left the instance as it was
Untouched ==
    /\ active = call.pre.active
    /\ context = call.pre.context
    /\ state = call.pre.state

Transitions(id) == chart.states[id].transitions

\* every guard of transition tr holds in context ctx
GuardsHold(tr, id, ev, ctx) ==
    \A i \in 1..Len(tr.conditions) :
        tr.conditions[i] # "panic" /\ condition(tr.conditions[i], id, ev, ctx)

\* the transitions of state id whose event is ev
Matching(id, ev) == {t \in 1..Len(Transitions(id)) : Transitions(id)[t].event = ev}

\* the transitions of state id enabled for ev when the call is made
EnabledAt(id, ev, ctx) == {t \in Matching(id, ev) : GuardsHold(Transitions(id)[t], id, ev, ctx)}

\* the transitions whose action lists the last call ran, as <<state, index>>
Fired == {<<call.trace[i].id, call.trace[i].t>> :
             i \in {j \in 1..Len(call.trace) : call.trace[j].tag = "Transition"}}

Rank(s) ==
    CASE s = "New" -> 0
      [] s = "Active" -> 1
      [] s = "Done" -> 2
      [] OTHER -> 3

----------------------------------------------------------------------------
(* Properties *)

\* C1: a post() on an instance that was never executed (lifecycle New)
\* returns InstanceIsNotActive, runs no callback and leaves the (empty)
\* active configuration, the context and the lifecycle New unchanged; an
\* execute() made on a New instance is never refused, also after such posts.
C1_PostBeforeExecute ==
    /\ (created /\ call.op = "post" /\ call.pre.state = "New") =>
           /\ call.result = "InstanceIsNotActive"
           /\ call.trace = <<>>
           /\ call.pre.active = {}
           /\ Untouched
           /\ state = "New"
    /\ (created /\ call.op = "execute" /\ call.pre.state = "New") =>
           call.result \in {"Ok", "panic"}

C1_Witness ==
    /\ hist.early
    /\ call.op = "execute"
    /\ call.result = "Ok"

\* C2: on an instance whose lifecycle is Done every execute() and every
\* post(e) returns InstanceIsDone, runs no callback and changes nothing.
C2_DoneRefusesAll ==
    (created /\ call.op \in {"execute", "post"} /\ call.pre.state = "Done") =>
        /\ call.result = "InstanceIsDone"
        /\ call.trace = <<>>
        /\ Untouched
        /\ state = "Done"

C2_Witness ==
    /\ call.op = "post"
    /\ call.pre.state = "Done"
    /\ call.result = "InstanceIsDone"
    /\ hist.dones = 1

\* C3: once an execute() has returned Ok, every later execute() runs no
\* callback, changes neither the active configuration nor the context nor
\* the lifecycle, and returns InstanceIsActive on an Active instance and
\* InstanceIsDone on a Done one; the init actions run at most once.
C3_ExecuteOnce ==
    [][(hist.executed /\ call'.op = "execute" /\ call' # call) =>
          /\ call'.trace = <<>>
          /\ call'.result # "Ok"
          /\ UNCHANGED <<active, context, state>>
          /\ (state = "Active" => call'.result = "InstanceIsActive")
          /\ (state = "Done" => call'.result = "InstanceIsDone")
          /\ hist'.inits <= 1]_vars

C3_Witness ==
    /\ hist.executed
    /\ call.op = "execute"
    /\ call.result = "InstanceIsActive"
    /\ active # {}

\* C4: whenever execute() or post() returns Ok, the lifecycle is Done if the
\* active configuration is non-empty and holds only Final states, and
\* Active otherwise.
C4_DoneIffAllFinal ==
    (Returned({"execute", "post"}) /\ call.result = "Ok") =>
        /\ state \in {"Done", "Active"}
        /\ state = "Done" <=>
               (active # {} /\ \A id \in active : chart.states[id].kind.k = "Final")

C4_Witness ==
    /\ call.op = "post"
    /\ call.result = "Ok"
    /\ state = "Done"
    /\ Cardinality(active) = 2

\* C5: the lifecycle never moves backward in the order New, Active, Done
\* (the state left behind by a panic counted as beyond Done), and a Done
\* instance stays Done.
C5_LifecycleForward ==
    [][/\ Rank(state) <= Rank(state')
       /\ state = "Done" => state' = "Done"]_vars

C5_Witness ==
    /\ call.op = "post"
    /\ call.pre.state = "Active"
    /\ state = "Done"

\* C6: on an Active instance, post(E) for an event E that no active state
\* has a transition for returns Ok and leaves the active configuration and
\* the lifecycle as they were.
C6_UnmatchedEventIgnored ==
    (Returned({"post"}) /\ call.pre.state = "Active"
        /\ call.arg[1] \notin accepts(chart, call.pre.active)) =>
        /\ call.result = "Ok"
        /\ active = call.pre.active
        /\ state = call.pre.state

\* C7: if an active state has two or more transitions on the posted event
\* whose guards all hold, post() returns MoreThanOneTransition and leaves
\* the active configuration as it was, the instance staying Active.
C7_ConflictRejected ==
    (Returned({"post"}) /\ call.pre.state = "Active"
        /\ \E id \in call.pre.active :
               Cardinality(EnabledAt(id, call.arg, call.pre.context)) >= 2) =>
        /\ call.result = "MoreThanOneTransition"
        /\ active = call.pre.active
        /\ state = "Active"

\* C8: an active state S that has transitions on the posted event, none of
\* them with all guards true, is still active after post().
C8_NoEnabledKeepsState ==
    (Returned({"post"}) /\ call.pre.state = "Active") =>
        \A id \in call.pre.active :
            (Matching(id, call.arg) # {} /\ EnabledAt(id, call.arg, call.pre.context) = {}) =>
                id \in active

\* C9: if exactly one transition T of the single active state S is on the
\* posted event with all guards true, post() returns Ok, runs the action
\* list of T and of no other transition, and the active configuration
\* becomes {target(T)}; the instance is Done when that target is Final.
C9_UniqueWinner ==
    (Returned({"post"}) /\ call.pre.state = "Active") =>
        \A id \in call.pre.active : \A t \in Matching(id, call.arg) :
            (call.pre.active = {id} /\ EnabledAt(id, call.arg, call.pre.context) = {t}
                /\ Transitions(id)[t].target # None) =>
                /\ call.result = "Ok"
                /\ Fired = {<<id, t>>}
                /\ active = Range(Transitions(id)[t].target)
                /\ (\A f \in active : chart.states[f].kind.k = "Final") => state = "Done"

\* C10: after a call that fires a transition whose target is an Orthogonal
\* state P, every child of P is active and P itself is not.
C10_OrthogonalEntersChildren ==
    (Returned({"execute", "post"}) /\ call.result = "Ok") =>
        \A f \in Fired : \A p \in Range(Transitions(f[1])[f[2]].target) :
            chart.states[p].kind.k = "Orthogonal" =>
                /\ Range(chart.states[p].kind.child_states) \subseteq active
                /\ p \notin active

\* the target of a fired transition f = <<state, index>>, as an Option
TargetOf(f) == Transitions(f[1])[f[2]].target

Kind(id) == chart.states[id].kind.k

\* callback <<tag, id>> was run by the last call, and Before(a, b) tells
\* that some run of a came before some run of b
Ran(tag, id) == \E i \in 1..Len(call.trace) : call.trace[i].tag = tag /\ call.trace[i].id = id

RanInOrder(tag1, tag2, id) ==
    \E i, j \in 1..Len(call.trace) :
        /\ i < j
        /\ call.trace[i].tag = tag1 /\ call.trace[i].id = id
        /\ call.trace[j].tag = tag2 /\ call.trace[j].id = id

\* C11: with two or more states active and the posted event enabling a
\* transition of exactly one of them (the others having no transition on
\* it), post() replaces only that state by the target and keeps the others;
\* the instance is not Done while a member is not Final.
C11_OthersRemain ==
    (Returned({"post"}) /\ call.pre.state = "Active" /\ Cardinality(call.pre.active) >= 2) =>
        \A id \in call.pre.active : \A t \in Matching(id, call.arg) :
            (/\ EnabledAt(id, call.arg, call.pre.context) = {t}
             /\ \A o \in call.pre.active \ {id} : Matching(o, call.arg) = {}) =>
                /\ call.result = "Ok"
                /\ active = (call.pre.active \ {id}) \cup Range(TargetOf(<<id, t>>))
                /\ (\E a \in active : Kind(a) # "Final") => state # "Done"

\* C12: if the posted event enables exactly one transition in each of two
\* different active states, post() returns Ok and both fire, each source
\* being replaced by the target of its own transition.
C12_BothRegionsFire ==
    (Returned({"post"}) /\ call.pre.state = "Active") =>
        \A a, b \in call.pre.active : \A ta \in Matching(a, call.arg) : \A tb \in Matching(b, call.arg) :
            (/\ a # b
             /\ call.pre.active = {a, b}
             /\ EnabledAt(a, call.arg, call.pre.context) = {ta}
             /\ EnabledAt(b, call.arg, call.pre.context) = {tb}) =>
                /\ call.result = "Ok"
                /\ Fired = {<<a, ta>>, <<b, tb>>}
                /\ active = Range(TargetOf(<<a, ta>>)) \cup Range(TargetOf(<<b, tb>>))

\* C13: once execute() has returned, no Composite or Orthogonal state is a
\* member of the active configuration.
C13_ActiveAreLeaves ==
    (created /\ hist.executed) =>
        \A id \in active : Kind(id) \notin {"Composite", "Orthogonal"}

\* C14: a state that a call makes newly active has had its Entry list and
\* then its Run list run by that call.
C14_EntryThenRun ==
    (Returned({"execute", "post"}) /\ call.result = "Ok") =>
        \A id \in active \ call.pre.active : RanInOrder("Entry", "Run", id)

\* C15: a state with a completion transition whose guards all hold is not
\* left in the active configuration when the call returns.
C15_CompletionFires ==
    (Returned({"execute", "post"}) /\ call.result = "Ok") =>
        \A id \in active \ call.pre.active : EnabledAt(id, None, context) = {}

\* C16: a fired transition that targets the History state H of a composite
\* C, of which child D was the last one active, makes D active and not H.
C16_HistoryRestores ==
    (Returned({"post"}) /\ call.result = "Ok") =>
        \A f \in Fired : \A h \in Range(TargetOf(f)) : \A d \in Range(hist.exited) :
            (/\ Kind(h) = "History"
             /\ Owners(chart, h) \cap Owners(chart, d) # {}
             /\ d \notin call.pre.active) =>
                /\ d \in active
                /\ h \notin active

\* C17: firing a transition that has no target leaves its source active.
C17_TargetlessKeepsSource ==
    (Returned({"execute", "post"}) /\ call.result = "Ok") =>
        \A f \in Fired : (TargetOf(f) = None /\ f[1] \in call.pre.active) => f[1] \in active

\* C18: a transition's action list is run only if it is the only enabled
\* transition of its source state for the event being processed.
C18_ActionsOnlyForWinner ==
    Returned({"execute", "post"}) =>
        \A f \in Fired : EnabledAt(f[1], call.arg, call.pre.context) = {f[2]}

\* C19: when a callback aborts during execute() or post(), the call returns
\* ActionPanicked and the lifecycle becomes Error.
C19_AbortContained ==
    (created /\ call.op \in {"execute", "post"} /\ call.result \in {"panic", "ActionPanicked"}) =>
        /\ call.result = "ActionPanicked"
        /\ is_in_error(state)

\* C20: a call made while the lifecycle is InAction returns
\* EventDuringAction and changes nothing.
C20_RefusedDuringAction ==
    (created /\ call.op \in {"execute", "post"} /\ call.pre.state = "InAction") =>
        /\ call.result = "EventDuringAction"
        /\ call.trace = <<>>
        /\ Untouched

\* C21: InAction holds only while an action list runs. As long as no
\* callback has aborted the lifecycle seen between calls is not InAction,
\* and an action list of any state, run from the current state of the
\* instance, gives back the lifecycle value held before it.
C21_InActionTransient ==
    created =>
        /\ ~hist.aborted => state # "InAction"
        /\ \A id \in DOMAIN chart.states : \A tag \in {"Entry", "Run", "Exit"} :
              LET r == post_internal_event(Machine(Instance), chart, id, 0, tag)
              IN  ~r.panicked => r.state = state

\* a call that ran action lists has returned Ok and the lifecycle is Active
C21_Witness ==
    /\ Returned({"post"}) /\ call.result = "Ok" /\ ~hist.aborted
    /\ Len(call.trace) >= 2
    /\ state = "Active"

\* The invariants of a definition, stated on the definition alone
AllTransitions(c) ==
    UNION {Range(c.states[id].transitions) : id \in DOMAIN c.states}

KindsIn(c, k) == {id \in DOMAIN c.states : c.states[id].kind.k = k}

IsInitial(c, id) == id \in DOMAIN c.states /\ c.states[id].kind.k = "Initial"

Holds(c, n) ==
    CASE n = 1 -> \A t \in AllTransitions(c) : \A id \in Range(t.target) : id \in DOMAIN c.states
      [] n = 2 -> IsInitial(c, c.initial)
      [] n = 3 -> KindsIn(c, "Final") # {}
      [] n = 4 -> \A id \in KindsIn(c, "Composite") :
                     /\ c.states[id].kind.child_states # <<>>
                     /\ IsInitial(c, c.states[id].kind.initial)
      [] n = 5 -> \A id \in KindsIn(c, "Orthogonal") : c.states[id].kind.child_states # <<>>
      [] n = 6 -> \A id \in KindsIn(c, "Final") : c.states[id].transitions = <<>>
      [] n = 7 -> \A t \in AllTransitions(c) :
                     t.event # None \/ t.target # None \/ t.conditions # <<>>

Violated(c) == {n \in 1..7 : ~Holds(c, n)}

ErrorsOf(n) ==
    CASE n = 1 -> {"TransitionTargetState"}
      [] n = 2 -> {"ChartInvalidInitialStateName", "ChartInvalidInitialStateKind"}
      [] n = 3 -> {"ChartNoFinalState"}
      [] n = 4 -> {"StateChildStatesEmpty", "StateInitialState"}
      [] n = 5 -> {"StateChildStatesEmpty"}
      [] n = 6 -> {"FinalStateTransitions"}
      [] n = 7 -> {"TransitionTrigger"}

\* C22: validate returns Ok exactly for the definitions that satisfy the
\* seven invariants, and for a definition that violates one invariant only
\* it returns an error kind of that invariant.
C22_ValidateIffInvariants ==
    call.op = "validate" =>
        /\ call.result = "Ok" <=> Violated(chart) = {}
        /\ \A n \in 1..7 : Violated(chart) = {n} => call.result \in ErrorsOf(n)

\* validate has answered on a definition whose only defect is a transition
\* to a state that does not exist
C22_Witness ==
    /\ call.op = "validate"
    /\ Violated(chart) = {1}
    /\ call.result = "TransitionTargetState"

\* C23: the defects of the machine are reported in a fixed order and before
\* any defect of a state or of a transition: no states, then an initial id
\* that names no state, then an initial state not of kind Initial, then no
\* Final state.
C23_MachineDefectsFirst ==
    call.op = "validate" =>
        call.result =
            IF DOMAIN chart.states = {} THEN "ChartStatesEmpty"
            ELSE IF chart.initial \notin DOMAIN chart.states THEN "ChartInvalidInitialStateName"
            ELSE IF ~IsInitial(chart, chart.initial) THEN "ChartInvalidInitialStateKind"
            ELSE IF KindsIn(chart, "Final") = {} THEN "ChartNoFinalState"
            ELSE call.result

\* validate has answered ChartNoFinalState on a definition that has a
\* defective state as well
C23_Witness ==
    /\ call.op = "validate"
    /\ call.result = "ChartNoFinalState"
    /\ Violated(chart) \cap {1, 4, 5, 7} # {}

\* C24: no instance exists of a definition that fails validation: new on
\* such a definition yields no instance, and the definition of every
\* instance validates, whatever calls were made since.
C24_InstancesAreValid ==
    /\ created => validate(chart) = {"Ok"}
    /\ (call.op = "new" /\ "Ok" \notin validate(chart)) => (~created /\ call.result = "panic")

\* new was called on a definition that fails validation
C24_Witness ==
    /\ call.op = "new"
    /\ Violated(chart) # {}
    /\ ~created

C26_SequentialHasOneActive ==
    (created /\ hist.executed /\ ~hist.aborted /\ KindsIn(chart, "Orthogonal") = {}) =>
        Cardinality(active) = 1

\* the guards of transition t of state id that the last call evaluated
GuardCount(id, t) ==
    Cardinality({i \in 1..Len(call.trace) :
                    call.trace[i] = Callback("Guard", id, t)})

\* C27: with at most one state active throughout, two instances of one
\* definition that start with equal contexts and are given the same calls
\* return the same results, run the same callbacks in the same order and
\* end in the same active configuration, lifecycle and context; the
\* transitions of the state are taken in the order of their declaration, and
\* the guards of a transition in list order up to the first one that is
\* false.
C27_SingleStateDeterminism ==
    (created /\ peer.created /\ ~hist.wide /\ ~peer.wide) =>
        /\ peer.active = active /\ peer.context = context /\ peer.state = state
        /\ call.op \in {"execute", "post"} => (peer.result = call.result /\ peer.trace = call.trace)
        /\ \A i, j \in 1..Len(call.trace) :
              (/\ i < j
               /\ call.trace[i].tag \in {"Guard", "Transition"}
               /\ call.trace[j].tag \in {"Guard", "Transition"}
               /\ call.trace[i].id = call.trace[j].id) => call.trace[i].t <= call.trace[j].t
        /\ \A f \in Fired : GuardCount(f[1], f[2]) = Len(Transitions(f[1])[f[2]].conditions)
        /\ \A id \in DOMAIN chart.states : \A t \in 1..Len(Transitions(id)) :
              /\ GuardCount(id, t) <= Len(Transitions(id)[t].conditions)
              /\ (GuardCount(id, t) > 0 /\ Transitions(id)[t].conditions[1] = "never") =>
                    GuardCount(id, t) = 1

\* both instances have answered a post whose event matched a transition
\* with a false first guard, of which the second guard was not evaluated
C27_Witness ==
    /\ Returned({"post"}) /\ peer.created /\ ~hist.wide /\ ~peer.wide
    /\ call.result = "Ok" /\ peer.result = "Ok"
    /\ \E id \in call.pre.active : \E t \in 1..Len(Transitions(id)) :
          /\ Transitions(id)[t] = Guarded
          /\ GuardCount(id, t) = 1

\* the conditions whose answer does not depend on the context
Fixed(tr, answer) == \E i \in 1..Len(tr.conditions) : tr.conditions[i] = answer

\* C28: during post(e) a transition of an active state is fired exactly
\* when its event is present and equal to e and all its guards answer true
\* (none counts as true); a transition without event is never fired by
\* post().  The guards answer on the context of the call when nothing ran
\* before them: one state active, one transition matching, no Exit action.
C28_EnabledMeansEventAndGuards ==
    (Returned({"post"}) /\ call.result = "Ok") =>
        /\ \A f \in Fired :
              /\ f[1] \in call.pre.active
              /\ Transitions(f[1])[f[2]].event = call.arg
              /\ ~Fixed(Transitions(f[1])[f[2]], "never")
        /\ \A id \in call.pre.active : \A t \in Matching(id, call.arg) :
              /\ Range(Transitions(id)[t].conditions) \subseteq {"always"} => <<id, t>> \in Fired
              /\ (/\ call.pre.active = {id}
                  /\ Matching(id, call.arg) = {t}
                  /\ Range(chart.states[id].on_exit) \subseteq {"nop"}) =>
                    (<<id, t>> \in Fired <=> t \in EnabledAt(id, call.arg, call.pre.context))

\* a post fired a guarded transition of a state that has a completion
\* transition as well, which it did not fire
C28_Witness ==
    /\ Returned({"post"}) /\ call.result = "Ok"
    /\ \E id \in call.pre.active : \E t1, t2 \in 1..Len(Transitions(id)) :
          /\ Transitions(id)[t1].event = None
          /\ Transitions(id)[t2].conditions # <<>>
          /\ Fired = {<<id, t2>>}

\* C29: when every transition of a state that matches the event being
\* processed is internal, the Exit actions of the state are not run in that
\* call, even if the internal transition fired has a target.
C29_InternalSkipsExit ==
    (created /\ call.op \in {"execute", "post"}) =>
        \A id \in DOMAIN chart.states :
            (\A t \in Matching(id, call.arg) : Transitions(id)[t].internal) => ~Ran("Exit", id)

\* a post fired an internal transition that has a target, from a state
\* that has Exit actions
C29_Witness ==
    /\ Returned({"post"}) /\ call.result = "Ok"
    /\ \E f \in Fired :
          /\ Transitions(f[1])[f[2]].internal
          /\ TargetOf(f) # None
          /\ chart.states[f[1]].on_exit # <<>>
          /\ \A t \in Matching(f[1], call.arg) : Transitions(f[1])[t].internal

\* C30: after the conversion of the builder every state that was added to
\* a Composite or Orthogonal parent through child is a state of the machine
\* and is listed among the children of its parent.
C30_ChildrenPopulated ==
    call.op = "from" =>
        \A id \in DOMAIN builder.states :
            builder.states[id].kind.k \in {"Composite", "Orthogonal"} =>
                \A i \in 1..Len(builder.states[id].child_states) :
                    /\ builder.states[id].child_states[i].id \in DOMAIN chart.states
                    /\ builder.states[id].child_states[i].id
                          \in Range(chart.states[id].kind.child_states)

\* C31: the callbacks of a call run in the order of the phases, each under
\* its own tag: in execute() Init, then Entry and Run of the initial state;
\* the Exit actions of a state before the actions of any external
\* transition of it that fires; Done, when run, after all others.
C31_PhaseOrder ==
    (created /\ call.op \in {"execute", "post"}) =>
        /\ \A i \in 1..Len(call.trace) :
              /\ call.trace[i].tag = "Init" <=> (call.op = "execute" /\ i = 1)
              /\ call.trace[i].tag = "Entry" <=>
                    (call.op = "execute" /\ i = 2 /\ call.trace[i].id = chart.initial)
              /\ call.trace[i].tag = "Run" <=>
                    (call.op = "execute" /\ i = 3 /\ call.trace[i].id = chart.initial)
              /\ call.trace[i].tag = "Done" => i = Len(call.trace)
              /\ (call.trace[i].tag = "Transition"
                    /\ ~Transitions(call.trace[i].id)[call.trace[i].t].internal) =>
                    \E j \in 1..(i - 1) : call.trace[j] = Callback("Exit", call.trace[i].id, 0)
        /\ (call.op = "execute" /\ call.result = "Ok") => Len(call.trace) >= 3

\* an execute ran Init, Entry, Run, Exit, the actions of a transition and
\* Done, in this order
C31_Witness ==
    /\ Returned({"execute"}) /\ call.result = "Ok"
    /\ Len(call.trace) = 6
    /\ call.trace[4].tag = "Exit" /\ call.trace[5].tag = "Transition" /\ call.trace[6].tag = "Done"

\* C32: over the life of an instance the done actions are run at most
\* once, in the call in which the lifecycle becomes Done and in no other:
\* not in a call that leaves the instance Active, not in a call that
\* returns an error.
C32_DoneActionsOnce ==
    created =>
        /\ hist.dones <= 1
        /\ Returned({"execute", "post"}) =>
              /\ Count(call.trace, "Done") <= 1
              /\ Count(call.trace, "Done") = 1 <=> (state = "Done" /\ call.pre.state # "Done")
              /\ call.result # "Ok" => Count(call.trace, "Done") = 0
              /\ state = "Active" => Count(call.trace, "Done") = 0

\* the done actions have run once, and a later call was refused
C32_Witness ==
    /\ created /\ hist.dones = 1
    /\ call.op = "post" /\ call.result = "InstanceIsDone"
    /\ chart.on_done # <<>>

\* C33: after a post(e) that returned Ok the active configuration is
\* exactly the set of the targets of the transitions fired, which are
\* transitions on e of the states active before the call whose guards all
\* answered true; nothing else is a member.
C33_ActiveIsFiredTargets ==
    (Returned({"post"}) /\ call.result = "Ok") =>
        /\ active = UNION {Range(TargetOf(f)) : f \in Fired}
        /\ \A f \in Fired :
              /\ f[1] \in call.pre.active
              /\ Transitions(f[1])[f[2]].event = call.arg
              /\ GuardCount(f[1], f[2]) = Len(Transitions(f[1])[f[2]].conditions)

\* of two active states one fired a transition and the other none: the
\* target is the only member left
C33_Witness ==
    /\ Returned({"post"}) /\ call.result = "Ok"
    /\ Cardinality(call.pre.active) = 2
    /\ \E f \in Fired : Fired = {f} /\ active = Range(TargetOf(f)) /\ active # {}
    /\ call.pre.active \cap active = {}

\* C34: every id in the active configuration names a state of the
\* definition of the instance.
C34_ActiveStatesExist ==
    created => active \subseteq DOMAIN chart.states

\* a transition has put its target in the active configuration
C34_Witness ==
    /\ Returned({"execute", "post"}) /\ call.result = "Ok"
    /\ \E f \in Fired : TargetOf(f) # None /\ Range(TargetOf(f)) \subseteq active

\* C35: once the active configuration of an Active instance is empty it
\* stays empty, every later post() returns Ok and the instance stays Active.
C35_EmptyStaysEmpty ==
    [][(created /\ state = "Active" /\ active = {}) =>
          /\ active' = {}
          /\ state' = "Active"
          /\ call'.op = "post" => call'.result = "Ok"]_vars

\* a post on an Active instance with nothing active has returned
C35_Witness ==
    /\ created /\ state = "Active" /\ active = {}
    /\ call.op = "post" /\ call.result = "Ok"
    /\ call.pre.state = "Active" /\ call.pre.active = {}

\* C36: whenever the instance is done, accepts() is the empty set.
C36_DoneAcceptsNothing ==
    (created /\ is_done(state)) => accepts(chart, active) = {}

\* the instance is done in a Final state, in a definition that has events
C36_Witness ==
    /\ created /\ is_done(state) /\ active # {}
    /\ \E id \in DOMAIN chart.states : state_accepts(chart.states[id]) # {}

\* C37: the Exit actions of a state are run in a call only if a transition
\* out of that state fires in the call.
C37_ExitOnlyWhenFiring ==
    Returned({"execute", "post"}) =>
        \A id \in DOMAIN chart.states : Ran("Exit", id) => \E f \in Fired : f[1] = id

\* C38: in a definition that validate accepts, every id in the child list
\* of a Composite or Orthogonal state names a state, and the initial child
\* of a Composite is in its child list.
C38_ChildrenExist ==
    (call.op = "validate" /\ call.result = "Ok") =>
        \A id \in DOMAIN chart.states :
            /\ chart.states[id].kind.k \in {"Composite", "Orthogonal"} =>
                  Range(chart.states[id].kind.child_states) \subseteq DOMAIN chart.states
            /\ chart.states[id].kind.k = "Composite" =>
                  chart.states[id].kind.initial \in Range(chart.states[id].kind.child_states)

\* C39: remove(k) of the Array agrees with contains_key(k): with k < len it
\* returns the element that was at index k and the array is one shorter,
\* with k >= len it returns None and the array is as it was.
C39_RemoveAgreesWithContains ==
    array.op = "remove" =>
        /\ ~array.panicked
        /\ IF contains_key(array.pre, array.key)
           THEN /\ array.result = get(array.pre, array.key)
                /\ Len(array.inner) = Len(array.pre) - 1
                /\ array.inner = SubSeq(array.pre, 1, array.key)
                                    \o SubSeq(array.pre, array.key + 2, Len(array.pre))
           ELSE /\ array.result = None
                /\ array.inner = array.pre

\* C40: every ID that ID::random returns differs from every ID returned by
\* an earlier call, whatever the interleaving of the calling threads.
C40_RandomIdsDistinct == ~gen.repeated

====
